---- MODULE Spec2Model ----
(***************************************************************************)
(* The translation services of translator/: OpenNMTTranslationService      *)
(* (opennmt_translation_service.py, the one views.py serves) and           *)
(* TranslationService (translation_service.py, the NLLB one).  One service *)
(* instance is shared by NumThreads request threads; `service` says which  *)
(* of the two classes the instance is.                                     *)
(*                                                                         *)
(* A handle (ctranslate2.Translator), a tokenizer and a model descriptor   *)
(* are each represented by the index of the registry entry they were built *)
(* from.  The registry is modelled with NumModels entries.  The engine,    *)
(* the subword tool, the downloads and the conversion are external: each   *)
(* call returns or raises, chosen nondeterministically.                    *)
(*                                                                         *)
(* Arguments of a call are drawn at the step that first reads them, and a  *)
(* local that is dead is reset, to keep the state space small.  Spec       *)
(* explores two scopes, chosen in Init: in scope "threads" every thread    *)
(* makes calls, each translate with the default request; in scope          *)
(* "requests" one thread makes calls, with every request of the bounded    *)
(* input sets and on either device.  SpecResolve applies the language      *)
(* resolution of translate to every request and text of its bounded sets.  *)
(***************************************************************************)
EXTENDS Integers, Sequences, FiniteSets, TLC

\* ---------------------------------------------------------------- bounds
NumThreads == 2
NumModels == 2
MaxTextLen == 2

\* ------------------------------------------------------------- constants
DEFAULT_MODEL_INDEX == 0
None == -1

Threads == 1..NumThreads
ModelIndexes == 0..(NumModels - 1)
\* indexes a caller may pass to switch_model: one below and one above the range
IndexInputs == (0 - 1)..NumModels
Free == 0

NoLang == "None"
Falsy(x) == x \in {NoLang, ""}
SUPPORTED_LANGUAGES == [en |-> "English", de |-> "German"]
\* SUPPORTED_LANGUAGES.get(lang, lang)
LanguageName(lang) ==
    IF lang \in DOMAIN SUPPORTED_LANGUAGES THEN SUPPORTED_LANGUAGES[lang] ELSE lang

\* model['name'] of registry entry i
OPENNMT_MODELS(i) ==
    IF i = 0 THEN "OpenNMT-v3-EN-DE-Large" ELSE "OpenNMT-v3-model-" \o ToString(i)
NLLB_MODELS(i) ==
    IF i = 0 THEN "NLLB-200-3.3B"
    ELSE IF i = 1 THEN "NLLB-200-1.3B-distilled"
    ELSE IF i = 2 THEN "NLLB-200-600M-distilled"
    ELSE "NLLB-200-model-" \o ToString(i)

VARIABLES
    scope,          \* "threads" | "requests": what this run explores
    service,        \* "opennmt" | "nllb": the class of the instance
    device,         \* self.device: "cuda" | "cpu"
    translator,     \* self.translator: None or the model the handle was built from
    handle_compute_type, \* the compute_type self.translator was constructed with
    tokenizer,      \* self.tokenizer (TranslationService only)
    tokenizer_src_lang, \* self.tokenizer.src_lang as assigned by translate, NoLang before
    dependencies_installed, \* self._dependencies_installed (OpenNMT only)
    lazy_loads,     \* how many lazy initializations have loaded the default model
    current_model,  \* self.current_model: None or a registry index
    lock,           \* self._lock: Free or the thread that holds it
    pc,             \* per thread: where it is
    op,             \* per thread: the public method it is inside
    model_index,    \* per thread: switch_model's argument
    model_info,     \* per thread: the registry entry being set up / loaded
    source_lang,    \* per thread: translate's variable source_lang
    target_lang,    \* per thread: translate's variable target_lang
    auto_detect,    \* per thread: translate's argument auto_detect
    lazy,           \* per thread: the lazy initialization of this call failed
    bpe,            \* per thread: how _apply_bpe_to_text ended in this call
    used_bpe,       \* per thread: the model whose subword table this call encoded with
    used_handle,    \* per thread: the model whose handle ran this call's translate_batch
    ret,            \* per thread: what the call returned (or raised)
    info,           \* per thread: get_model_info()['current_model'] as read by the caller
    changed,        \* per thread: this switch_model call changed a published field
    foreign_publish,\* per thread: another call published after this call's publish
    probe           \* SpecResolve: the request being resolved and its resolution

vars == <<scope, service, device, translator, handle_compute_type, tokenizer,
          tokenizer_src_lang, dependencies_installed, lazy_loads, current_model,
          lock, pc, op, model_index, model_info, source_lang, target_lang, auto_detect,
          lazy, bpe, used_bpe, used_handle, ret, info, changed, foreign_publish, probe>>

shared == <<scope, service, device, translator, handle_compute_type, tokenizer,
            tokenizer_src_lang, dependencies_installed, lazy_loads, current_model, lock>>
langs == <<source_lang, target_lang, auto_detect>>

\* -------------------------------------------------- language heuristic
Alphabet == {"e", "r", "x", "Ü"}
Texts == UNION {[1..n -> Alphabet] : n \in 0..MaxTextLen}

\* str.lower() on one character
LowerChar(c) ==
    CASE c = "Ä" -> "ä" [] c = "Ö" -> "ö" [] c = "Ü" -> "ü"
      [] c = "E" -> "e" [] c = "R" -> "r" [] c = "X" -> "x"
      [] OTHER -> c
Lower(text) == [k \in 1..Len(text) |-> LowerChar(text[k])]

\* `indicator in text`
Contains(text, indicator) ==
    \E k \in 0..(Len(text) - Len(indicator)) :
        \A j \in 1..Len(indicator) : text[k + j] = indicator[j]

common_indicators ==
    << <<"d","e","r">>, <<"d","i","e">>, <<"d","a","s">>, <<"u","n","d">>,
       <<"i","s","t">>, <<"e","i","n">>, <<"e","i","n","e">>,
       <<"n","i","c","h","t">>, <<"i","c","h">>, <<"s","i","e">>, <<"e","r">>,
       <<"ß">>, <<"ä">>, <<"ö">>, <<"ü">>, <<"Ä">>, <<"Ö">>, <<"Ü">> >>
opennmt_indicators ==
    common_indicators \o
    << <<"v","o","n">>, <<"z","u">>, <<"m","i","t">>, <<"a","u","f">>,
       <<"f","ü","r">>, <<"w","i","r","d">>, <<"w","e","r","d","e","n">> >>
german_indicators(svc) ==
    IF svc = "opennmt" THEN opennmt_indicators ELSE common_indicators

german_score(svc, text) ==
    Cardinality({k \in 1..Len(german_indicators(svc)) :
                    Contains(Lower(text), german_indicators(svc)[k])})

English(svc) == IF svc = "opennmt" THEN "en" ELSE "eng_Latn"
German(svc) == IF svc = "opennmt" THEN "de" ELSE "deu_Latn"

\* a detection that wants more than one indicator
detect_language_strict(svc, text) ==
    IF german_score(svc, text) > 1 THEN German(svc) ELSE English(svc)

\* lines 216-234 / 126-144
detect_language(svc, text) ==
    IF german_score(svc, text) > 0 THEN German(svc) ELSE English(svc)

\* lines 270-271 / 169-170
ResolveSource(svc, src, auto, text) ==
    IF auto /\ Falsy(src) THEN detect_language(svc, text) ELSE src

\* a target resolution that keeps German for a German source
ResolveTarget_same(svc, src, tgt) ==
    IF ~Falsy(tgt) THEN tgt
    ELSE IF src = English(svc) THEN German(svc)
    ELSE IF src = German(svc) THEN German(svc)
    ELSE IF svc = "opennmt" THEN "de" ELSE "eng_Latn"

\* lines 274-280 / 173-179
ResolveTarget(svc, src, tgt) ==
    IF ~Falsy(tgt) THEN tgt
    ELSE IF src = English(svc) THEN German(svc)
    ELSE IF src = German(svc) THEN English(svc)
    ELSE IF svc = "opennmt" THEN "de" ELSE "eng_Latn"

SourceInputs(svc) == {NoLang, "", English(svc), German(svc), "fr"}
TargetInputs(svc) == {NoLang, "", English(svc), German(svc), "fr"}

\* the requests translate is called with: (source_lang, target_lang, auto_detect)
Requests(scp, svc) ==
    IF scp = "threads" THEN { <<NoLang, NoLang, TRUE>> }
    ELSE { <<NoLang, NoLang, TRUE>>, <<NoLang, NoLang, FALSE>>,
           <<"fr", NoLang, TRUE>>, <<German(svc), "fr", FALSE>> }
\* and the texts they carry: without and with a German indicator
RequestTexts(scp) == { <<"x">>, <<"e", "r">> }

\* ------------------------------------------------------------- results
NoResult == [kind |-> "none"]
Returned(v) == [kind |-> "return", value |-> v]
Raised(msg) == [kind |-> "raise", error |-> msg]

\* x or default
Or(x, default) == IF Falsy(x) THEN default ELSE x

\* lines 261-267
NotInitialized(src, tgt) ==
    [translated_text |-> "",
     source_language |-> Or(src, "en"),
     target_language |-> Or(tgt, "de"),
     error |-> "OpenNMT translation model not initialized",
     success |-> FALSE]

\* a failure result that keeps a partial translation
Failure_partial(src, tgt, msg) ==
    [translated_text |-> "Hallo",
     source_language |-> src,
     target_language |-> tgt,
     error |-> msg,
     success |-> FALSE]

\* lines 323-329 / 232-238
Failure(src, tgt, msg) ==
    [translated_text |-> "",
     source_language |-> src,
     target_language |-> tgt,
     error |-> msg,
     success |-> FALSE]

\* lines 311-320 / 220-229
Success(text, src, tgt, name, dev) ==
    [translated_text |-> text,
     source_language |-> src,
     target_language |-> tgt,
     source_language_name |-> LanguageName(src),
     target_language_name |-> LanguageName(tgt),
     model_name |-> name,
     device_used |-> dev,
     success |-> TRUE]

\* str(e) of an exception raised by a callee (the engine, the subword tool, an index)
CalleeError == "error raised by a callee"

\* what the engine's hypothesis detokenizes to: empty or not
Translations(scp) == IF scp = "threads" THEN {"Hallo Welt"} ELSE {"", "Hallo Welt"}

ModelName(svc, m) ==
    IF svc = "opennmt" THEN OPENNMT_MODELS(m) ELSE NLLB_MODELS(m)

\* self.current_model['name'] if self.current_model else 'Unknown'
ResultModelName(svc, cur) == IF cur = None THEN "Unknown" ELSE ModelName(svc, cur)

\* get_model_info()['current_model']
get_model_info(svc, cur) ==
    IF cur # None THEN ModelName(svc, cur)
    ELSE IF svc = "opennmt" THEN "OpenNMT-v3-EN-DE-Large" ELSE "None"

\* -------------------------------------------------- compute precision
\* _get_compute_type: self.compute_type, fixed by __init__ from the device
get_compute_type(dev) == IF dev = "cuda" THEN "int8_float16" ELSE "int8"

\* the compute types _load_model passes to ctranslate2.Translator, in order:
\* TranslationService on cuda walks compute_type_cuda_options (line 75) and
\* on cpu uses "int8" (line 95); OpenNMT passes self.compute_type (line 193)
Ladder(svc, dev) ==
    IF svc = "nllb"
    THEN IF dev = "cuda" THEN <<"int8_float16", "float16", "float32">> ELSE <<"int8">>
    ELSE <<get_compute_type(dev)>>

\* what ctranslate2.Translator(...) does with one compute type: it returns
\* the handle, raises ValueError (the type is not supported on the device)
\* or raises something else
Answers == {"ok", "unsupported", "error"}

\* the engine's answer to each entry of a ladder
Engines(ladder) == [1..Len(ladder) -> Answers]

NoHandle == "none"

\* a fallback loop that moves to the next entry after any exception
RECURSIVE Negotiate_any(_, _, _)
Negotiate_any(ladder, engine, i) ==
    IF i > Len(ladder)
    THEN [result |-> "exhausted", attempts |-> Len(ladder), compute_type |-> NoHandle]
    ELSE IF engine[i] = "ok"
    THEN [result |-> "ok", attempts |-> i, compute_type |-> ladder[i]]
    ELSE Negotiate_any(ladder, engine, i + 1)

\* lines 74-96 / 190-194, from entry i on: a ValueError moves to the next
\* entry, anything else leaves at once; past the last entry the load raises
\* (RuntimeError at line 89, or the ValueError itself where nothing
\* catches it)
RECURSIVE Negotiate(_, _, _)
Negotiate(ladder, engine, i) ==
    IF i > Len(ladder)
    THEN [result |-> "exhausted", attempts |-> Len(ladder), compute_type |-> NoHandle]
    ELSE IF engine[i] = "ok"
    THEN [result |-> "ok", attempts |-> i, compute_type |-> ladder[i]]
    ELSE IF engine[i] = "unsupported"
    THEN Negotiate(ladder, engine, i + 1)
    ELSE [result |-> "error", attempts |-> i, compute_type |-> NoHandle]

\* -------------------------------------------------------------- helpers
Set(f, t, v) == [f EXCEPT ![t] = v]

\* the locals of a call that has ended
ResetLocals(t) ==
    /\ model_index' = Set(model_index, t, None)
    /\ model_info' = Set(model_info, t, None)
    /\ source_lang' = Set(source_lang, t, NoLang)
    /\ target_lang' = Set(target_lang, t, NoLang)
    /\ auto_detect' = Set(auto_detect, t, FALSE)
    /\ lazy' = Set(lazy, t, FALSE)
    /\ bpe' = Set(bpe, t, "none")
    /\ used_bpe' = Set(used_bpe, t, None)
    /\ used_handle' = Set(used_handle, t, None)
    /\ ret' = Set(ret, t, NoResult)
    /\ info' = Set(info, t, "")
    /\ changed' = Set(changed, t, FALSE)
    /\ foreign_publish' = Set(foreign_publish, t, 0)

Max(a, b) == IF a >= b THEN a ELSE b

SwitchSucceeded(t) == ret[t].kind = "return" /\ ret[t].value = TRUE

\* Thread u assigns self.current_model: the other calls that have published and
\* not yet read the status note it (1: before they returned, 2: after).
NotePublish(u) ==
    [t \in Threads |->
        IF t = u THEN 0
        ELSE IF pc[t] = "caller" /\ SwitchSucceeded(t) THEN 2
        ELSE IF pc[t] = "sw_return" /\ SwitchSucceeded(t) THEN Max(foreign_publish[t], 1)
        ELSE foreign_publish[t]]

\* Thread u returns from switch_model: a call that returned earlier notes it.
NoteReturn(u) ==
    [t \in Threads |->
        IF t # u /\ pc[t] = "caller" /\ SwitchSucceeded(t) /\ SwitchSucceeded(u)
        THEN 2 ELSE foreign_publish[t]]

\* how _apply_bpe_to_text ends (lines 99-139): with the token lists, with []
\* after a non-zero exit of subword-nmt (lines 123-125), with [] after
\* output that cannot be read (lines 131-133), or raising
BpeOutcomes == {"ok", "tool_failed", "unreadable", "raised"}

TypeOK ==
    /\ scope \in {"threads", "requests"}
    /\ service \in {"opennmt", "nllb"}
    /\ device \in {"cuda", "cpu"}
    /\ translator \in {None} \cup ModelIndexes
    /\ tokenizer \in {None} \cup ModelIndexes
    /\ current_model \in {None} \cup ModelIndexes
    /\ lock \in {Free} \cup Threads
    /\ op \in [Threads -> {"none", "translate", "switch_model"}]
    /\ model_index \in [Threads -> {None} \cup IndexInputs]
    /\ model_info \in [Threads -> {None} \cup ModelIndexes]
    /\ auto_detect \in [Threads -> BOOLEAN]
    /\ lazy \in [Threads -> BOOLEAN]
    /\ bpe \in [Threads -> {"none"} \cup BpeOutcomes]
    /\ used_bpe \in [Threads -> {None} \cup ModelIndexes]
    /\ used_handle \in [Threads -> {None} \cup ModelIndexes]
    /\ tokenizer_src_lang \in {NoLang} \cup SourceInputs("nllb")
    /\ dependencies_installed \in BOOLEAN
    /\ lazy_loads \in 0..NumThreads
    /\ handle_compute_type \in {NoHandle, "int8", "int8_float16", "float16", "float32"}
    /\ changed \in [Threads -> BOOLEAN]
    /\ foreign_publish \in [Threads -> 0..2]

\* ---------------------------------------------------------------- Init
\* OpenNMTTranslationService.__init__ loads nothing (lines 21-30).
\* TranslationService.__init__ runs _initialize_default_model (line 26), whose
\* _load_model may stop before the translator, after it, or complete.
\* The handle it built was built with some entry of the ladder.
InitPublished ==
    \/ /\ translator = None /\ tokenizer = None /\ current_model = None
       /\ handle_compute_type = NoHandle
    \/ /\ service = "nllb"
       /\ translator = DEFAULT_MODEL_INDEX /\ tokenizer = None /\ current_model = None
       /\ \E i \in DOMAIN Ladder(service, device) :
             handle_compute_type = Ladder(service, device)[i]
    \/ /\ service = "nllb"
       /\ translator = DEFAULT_MODEL_INDEX
       /\ tokenizer = DEFAULT_MODEL_INDEX
       /\ current_model = DEFAULT_MODEL_INDEX
       /\ \E i \in DOMAIN Ladder(service, device) :
             handle_compute_type = Ladder(service, device)[i]

NoProbe == [state |-> "none"]

InitThreads ==
    /\ lock = Free
    /\ tokenizer_src_lang = NoLang
    /\ dependencies_installed = FALSE
    /\ lazy_loads = 0
    /\ used_bpe = [t \in Threads |-> None]
    /\ used_handle = [t \in Threads |-> None]
    /\ pc = [t \in Threads |-> "idle"]
    /\ op = [t \in Threads |-> "none"]
    /\ model_index = [t \in Threads |-> None]
    /\ model_info = [t \in Threads |-> None]
    /\ source_lang = [t \in Threads |-> NoLang]
    /\ target_lang = [t \in Threads |-> NoLang]
    /\ auto_detect = [t \in Threads |-> FALSE]
    /\ lazy = [t \in Threads |-> FALSE]
    /\ bpe = [t \in Threads |-> "none"]
    /\ ret = [t \in Threads |-> NoResult]
    /\ info = [t \in Threads |-> ""]
    /\ changed = [t \in Threads |-> FALSE]
    /\ foreign_publish = [t \in Threads |-> 0]

\* the threads that make calls
Active(t) == scope = "threads" \/ t = 1

Init ==
    /\ scope \in {"threads", "requests"}
    /\ service \in {"opennmt", "nllb"}
    /\ device \in IF scope = "threads" THEN {"cpu"} ELSE {"cuda", "cpu"}
    /\ InitPublished
    /\ InitThreads
    /\ probe = NoProbe

\* ============================================ OpenNMTTranslationService
IsOpenNMT == service = "opennmt"

\* what a failed _setup_model / _load_model leads to in its caller:
\* switch_model returns False (lines 211-214), _initialize_default_model
\* swallows it (lines 170-171) and translate goes on to line 260
LoadFailed(t) ==
    IF op[t] = "switch_model"
    THEN /\ pc' = Set(pc, t, "sw_return")
         /\ ret' = Set(ret, t, Returned(FALSE))
         /\ lazy' = lazy
    ELSE /\ pc' = Set(pc, t, "tr_ready")
         /\ ret' = ret
         /\ lazy' = Set(lazy, t, TRUE)

\* what a completed _load_model leads to in its caller
LoadDone(t) ==
    IF op[t] = "switch_model"
    THEN /\ pc' = Set(pc, t, "sw_return")
         /\ ret' = Set(ret, t, Returned(TRUE))
    ELSE /\ pc' = Set(pc, t, "tr_ready")
         /\ ret' = ret

\* a switch_model call has assigned a published field a value it did not have
NoteChange(t, differs) ==
    IF op[t] = "switch_model" THEN Set(changed, t, changed[t] \/ differs) ELSE changed

\* translate is entered
translate_call(t) ==
    /\ IsOpenNMT
    /\ Active(t)
    /\ pc[t] = "idle"
    /\ pc' = Set(pc, t, "tr_lazy_check")
    /\ op' = Set(op, t, "translate")
    /\ UNCHANGED <<shared, model_index, model_info, langs, lazy, bpe, used_bpe, used_handle, ret, info,
                   changed, foreign_publish, probe>>

\* lines 256-258: if not self.translator: self._initialize_default_model()
translate_lazy_check(t) ==
    /\ IsOpenNMT
    /\ pc[t] = "tr_lazy_check"
    /\ IF translator = None
       THEN /\ pc' = Set(pc, t, "setup")
            /\ model_info' = Set(model_info, t, DEFAULT_MODEL_INDEX)
       ELSE /\ pc' = Set(pc, t, "tr_ready")
            /\ model_info' = model_info
    /\ UNCHANGED <<shared, op, model_index, langs, lazy, bpe, used_bpe, used_handle, ret, info, changed,
                   foreign_publish, probe>>

\* _setup_model: the downloads and the conversion, without the lock
SetupOutcomes == {"ok", "download_failed", "convert_failed", "convert_raised"}

setup_model(t) ==
    /\ IsOpenNMT
    /\ pc[t] = "setup"
    /\ \E outcome \in SetupOutcomes :
          IF outcome = "ok"
          THEN /\ pc' = Set(pc, t, "load_acquire")
               /\ UNCHANGED <<ret, lazy>>
          ELSE LoadFailed(t)
    /\ UNCHANGED <<shared, op, model_index, model_info, langs, bpe, used_bpe, used_handle, info, changed,
                   foreign_publish, probe>>

\* _load_model entered without waiting for the lock
load_model_acquire_unlocked(t) ==
    /\ IsOpenNMT
    /\ pc[t] = "load_acquire"
    /\ lock' = t
    /\ pc' = Set(pc, t, "load_construct")
    /\ UNCHANGED <<scope, service, device, tokenizer_src_lang, dependencies_installed,
                   lazy_loads, translator, handle_compute_type, tokenizer,
                   current_model, op,
                   model_index, model_info, langs, lazy, bpe, used_bpe, used_handle, ret, info, changed,
                   foreign_publish, probe>>

\* _load_model line 187: with self._lock
load_model_acquire(t) ==
    /\ IsOpenNMT
    /\ pc[t] = "load_acquire"
    /\ lock = Free
    /\ lock' = t
    /\ pc' = Set(pc, t, "load_construct")
    /\ UNCHANGED <<scope, service, device, tokenizer_src_lang, dependencies_installed,
                   lazy_loads, translator, handle_compute_type, tokenizer,
                   current_model, op,
                   model_index, model_info, langs, lazy, bpe, used_bpe, used_handle, ret, info, changed,
                   foreign_publish, probe>>

\* a _load_model that unpublishes the handle when the construction raises
load_model_construct_clearing(t) ==
    /\ IsOpenNMT
    /\ pc[t] = "load_construct"
    /\ \E engine \in Engines(Ladder(service, device)) :
          LET built == Negotiate(Ladder(service, device), engine, 1)
          IN IF built.result = "ok"
             THEN /\ translator' = model_info[t]
                  /\ handle_compute_type' = built.compute_type
                  /\ changed' = NoteChange(t, translator # model_info[t])
                  /\ pc' = Set(pc, t, "load_publish")
                  /\ UNCHANGED <<lock, ret, lazy>>
             ELSE /\ lock' = Free
                  /\ translator' = None
                  /\ handle_compute_type' = NoHandle
                  /\ LoadFailed(t)
                  /\ UNCHANGED changed
    /\ UNCHANGED <<scope, service, device, tokenizer_src_lang, dependencies_installed,
                   lazy_loads, tokenizer, current_model, op, model_index,
                   model_info, langs, bpe, used_bpe, used_handle, info, foreign_publish, probe>>

\* a _load_model that keeps the lock when the construction raises
load_model_construct_leaky(t) ==
    /\ IsOpenNMT
    /\ pc[t] = "load_construct"
    /\ \E engine \in Engines(Ladder(service, device)) :
          LET built == Negotiate(Ladder(service, device), engine, 1)
          IN IF built.result = "ok"
             THEN /\ translator' = model_info[t]
                  /\ handle_compute_type' = built.compute_type
                  /\ changed' = NoteChange(t, translator # model_info[t])
                  /\ pc' = Set(pc, t, "load_publish")
                  /\ UNCHANGED <<lock, ret, lazy>>
             ELSE /\ LoadFailed(t)
                  /\ UNCHANGED <<lock, translator, handle_compute_type, changed>>
    /\ UNCHANGED <<scope, service, device, tokenizer_src_lang, dependencies_installed,
                   lazy_loads, tokenizer, current_model, op, model_index,
                   model_info, langs, bpe, used_bpe, used_handle, info, foreign_publish, probe>>

\* lines 190-194: self.translator = ctranslate2.Translator(...), or it raises
\* and the with block releases the lock
load_model_construct(t) ==
    /\ IsOpenNMT
    /\ pc[t] = "load_construct"
    /\ \E engine \in Engines(Ladder(service, device)) :
          LET built == Negotiate(Ladder(service, device), engine, 1)
          IN IF built.result = "ok"
             THEN /\ translator' = model_info[t]
                  /\ handle_compute_type' = built.compute_type
                  /\ changed' = NoteChange(t, translator # model_info[t])
                  /\ pc' = Set(pc, t, "load_publish")
                  /\ UNCHANGED <<lock, ret, lazy>>
             ELSE /\ lock' = Free
                  /\ LoadFailed(t)
                  /\ UNCHANGED <<translator, handle_compute_type, changed>>
    /\ UNCHANGED <<scope, service, device, tokenizer_src_lang, dependencies_installed,
                   lazy_loads, tokenizer, current_model, op, model_index,
                   model_info, langs, bpe, used_bpe, used_handle, info, foreign_publish, probe>>

\* a publish step that records the default descriptor whatever was loaded
load_model_publish_default(t) ==
    /\ IsOpenNMT
    /\ pc[t] = "load_publish"
    /\ current_model' = DEFAULT_MODEL_INDEX
    /\ changed' = NoteChange(t, current_model # DEFAULT_MODEL_INDEX)
    /\ foreign_publish' = NotePublish(t)
    /\ lock' = Free
    /\ lazy_loads' = IF op[t] = "translate" THEN lazy_loads + 1 ELSE lazy_loads
    /\ LoadDone(t)
    /\ UNCHANGED <<scope, service, device, tokenizer_src_lang, dependencies_installed,
                   translator, handle_compute_type, tokenizer, op, model_index,
                   model_info, langs, lazy, bpe, used_bpe, used_handle, info, probe>>

\* lines 196-197: self.current_model = model_info, and the lock is released
load_model_publish(t) ==
    /\ IsOpenNMT
    /\ pc[t] = "load_publish"
    /\ current_model' = model_info[t]
    /\ changed' = NoteChange(t, current_model # model_info[t])
    /\ foreign_publish' = NotePublish(t)
    /\ lock' = Free
    /\ lazy_loads' = IF op[t] = "translate" THEN lazy_loads + 1 ELSE lazy_loads
    /\ LoadDone(t)
    /\ UNCHANGED <<scope, service, device, tokenizer_src_lang, dependencies_installed,
                   translator, handle_compute_type, tokenizer, op, model_index,
                   model_info, langs, lazy, bpe, used_bpe, used_handle, info, probe>>

\* translate going on to the languages without the check of line 260
translate_ready_unchecked(t) ==
    /\ IsOpenNMT
    /\ pc[t] = "tr_ready"
    /\ \E req \in Requests(scope, service), text \in RequestTexts(scope) :
          LET src == ResolveSource(service, req[1], req[3], text)
          IN /\ source_lang' = Set(source_lang, t, src)
             /\ target_lang' = Set(target_lang, t, ResolveTarget(service, src, req[2]))
             /\ auto_detect' = Set(auto_detect, t, req[3])
             /\ pc' = Set(pc, t, "tr_encode")
             /\ ret' = ret
    /\ UNCHANGED <<shared, op, model_index, model_info, lazy, bpe, used_bpe, used_handle, info, changed,
                   foreign_publish, probe>>

\* lines 260-280: without a model the not-initialized result; otherwise the
\* source and the target language are resolved
translate_ready(t) ==
    /\ IsOpenNMT
    /\ pc[t] = "tr_ready"
    /\ \E req \in Requests(scope, service), text \in RequestTexts(scope) :
          IF translator = None \/ current_model = None
          THEN /\ ret' = Set(ret, t, Returned(NotInitialized(req[1], req[2])))
               /\ pc' = Set(pc, t, "tr_return")
               /\ UNCHANGED langs
          ELSE LET src == ResolveSource(service, req[1], req[3], text)
               IN /\ source_lang' = Set(source_lang, t, src)
                  /\ target_lang' = Set(target_lang, t, ResolveTarget(service, src, req[2]))
                  /\ auto_detect' = Set(auto_detect, t, req[3])
                  /\ pc' = Set(pc, t, "tr_encode")
                  /\ ret' = ret
    /\ UNCHANGED <<shared, op, model_index, model_info, lazy, bpe, used_bpe, used_handle, info, changed,
                   foreign_publish, probe>>

\* an encode step that takes the empty list of a failed tool for the tokens
translate_bpe_swallowed(t) ==
    /\ IsOpenNMT
    /\ pc[t] = "tr_encode"
    /\ \E outcome \in BpeOutcomes, installed \in BOOLEAN :
          /\ bpe' = Set(bpe, t, outcome)
          /\ dependencies_installed' = (dependencies_installed \/ installed)
          /\ used_bpe' = Set(used_bpe, t, current_model)
          /\ IF outcome # "raised"
             THEN /\ pc' = Set(pc, t, "tr_acquire")
                  /\ ret' = ret
             ELSE /\ pc' = Set(pc, t, "tr_return")
                  /\ ret' = Set(ret, t, Returned(Failure(source_lang[t], target_lang[t],
                                                         CalleeError)))
    /\ UNCHANGED <<scope, service, device, translator, handle_compute_type, tokenizer,
                   tokenizer_src_lang, lazy_loads, current_model, lock, op,
                   model_index, model_info, langs, lazy, used_handle, info, changed,
                   foreign_publish, probe>>

\* lines 284-289: _apply_bpe_to_text([text], self.current_model['bpe_path']),
\* which first has _install_dependencies set self._dependencies_installed
\* if it can (lines 101-102, 39-58)
translate_bpe(t) ==
    /\ IsOpenNMT
    /\ pc[t] = "tr_encode"
    /\ \E outcome \in BpeOutcomes, installed \in BOOLEAN :
          /\ bpe' = Set(bpe, t, outcome)
          /\ dependencies_installed' = (dependencies_installed \/ installed)
          /\ used_bpe' = Set(used_bpe, t, current_model)
          /\ IF outcome = "ok"
             THEN /\ pc' = Set(pc, t, "tr_acquire")
                  /\ ret' = ret
             ELSE /\ pc' = Set(pc, t, "tr_return")
                  /\ ret' = Set(ret, t, Returned(Failure(source_lang[t], target_lang[t],
                                          IF outcome = "raised" THEN CalleeError
                                          ELSE "BPE tokenization failed")))
    /\ UNCHANGED <<scope, service, device, translator, handle_compute_type, tokenizer,
                   tokenizer_src_lang, lazy_loads, current_model, lock, op,
                   model_index, model_info, langs, lazy, used_handle, info, changed,
                   foreign_publish, probe>>

\* translate entering the engine without waiting for the lock
translate_acquire_unlocked(t) ==
    /\ IsOpenNMT
    /\ pc[t] = "tr_acquire"
    /\ lock' = t
    /\ pc' = Set(pc, t, "tr_infer")
    /\ UNCHANGED <<scope, service, device, tokenizer_src_lang, dependencies_installed,
                   lazy_loads, translator, handle_compute_type, tokenizer,
                   current_model, op,
                   model_index, model_info, langs, lazy, bpe, used_bpe, used_handle, ret, info, changed,
                   foreign_publish, probe>>

\* line 292: with self._lock
translate_acquire(t) ==
    /\ IsOpenNMT
    /\ pc[t] = "tr_acquire"
    /\ lock = Free
    /\ lock' = t
    /\ pc' = Set(pc, t, "tr_infer")
    /\ UNCHANGED <<scope, service, device, tokenizer_src_lang, dependencies_installed,
                   lazy_loads, translator, handle_compute_type, tokenizer,
                   current_model, op,
                   model_index, model_info, langs, lazy, bpe, used_bpe, used_handle, ret, info, changed,
                   foreign_publish, probe>>

\* lines 293-301: self.translator.translate_batch(...) returns or raises; the
\* with block releases the lock either way
translate_infer(t) ==
    /\ IsOpenNMT
    /\ pc[t] = "tr_infer"
    /\ lock' = Free
    /\ used_handle' = Set(used_handle, t, translator)
    /\ \/ /\ pc' = Set(pc, t, "tr_result")
          /\ ret' = ret
       \/ /\ pc' = Set(pc, t, "tr_return")
          /\ ret' = Set(ret, t, Returned(Failure(source_lang[t], target_lang[t],
                                                 CalleeError)))
    /\ UNCHANGED <<scope, service, device, tokenizer_src_lang, dependencies_installed,
                   lazy_loads, translator, handle_compute_type, tokenizer,
                   current_model, op,
                   model_index, model_info, langs, lazy, bpe, used_bpe, info, changed,
                   foreign_publish, probe>>

\* lines 304-320: the hypothesis is detokenized and the result assembled, or
\* results[0].hypotheses[0] raises
translate_result(t) ==
    /\ IsOpenNMT
    /\ pc[t] = "tr_result"
    /\ \/ \E text \in Translations(scope) :
             ret' = Set(ret, t, Returned(Success(text, source_lang[t], target_lang[t],
                                  ResultModelName(service, current_model), device)))
       \/ ret' = Set(ret, t, Returned(Failure(source_lang[t], target_lang[t],
                                              CalleeError)))
    /\ pc' = Set(pc, t, "tr_return")
    /\ UNCHANGED <<shared, op, model_index, model_info, langs, lazy, bpe, used_bpe, used_handle, info, changed,
                   foreign_publish, probe>>

\* translate has returned (or raised) to its caller, which is done with it
translate_return(t) ==
    /\ pc[t] = "tr_return"
    /\ pc' = Set(pc, t, "idle")
    /\ op' = Set(op, t, "none")
    /\ ResetLocals(t)
    /\ UNCHANGED <<shared, probe>>

\* a range check that lets the length of the registry through
InRange_inclusive(i) == 0 <= i /\ i <= NumModels

\* lines 205-206 and 214: the range check of switch_model
InRange(i) == 0 <= i /\ i < NumModels

\* a switch_model that takes the lock before it sets the model up
switch_model_call_locked(t) ==
    /\ IsOpenNMT
    /\ Active(t)
    /\ pc[t] = "idle"
    /\ lock = Free
    /\ \E i \in IndexInputs :
          /\ model_index' = Set(model_index, t, i)
          /\ IF InRange(i)
             THEN /\ model_info' = Set(model_info, t, i)
                  /\ pc' = Set(pc, t, "setup")
                  /\ ret' = ret
                  /\ lock' = t
             ELSE /\ model_info' = model_info
                  /\ pc' = Set(pc, t, "sw_return")
                  /\ ret' = Set(ret, t, Returned(FALSE))
                  /\ lock' = lock
    /\ op' = Set(op, t, "switch_model")
    /\ UNCHANGED <<scope, service, device, tokenizer_src_lang, dependencies_installed,
                   lazy_loads, translator, handle_compute_type, tokenizer,
                   current_model, langs, lazy, bpe, used_bpe, used_handle, info, changed, foreign_publish, probe>>

switch_model_call(t) ==
    /\ IsOpenNMT
    /\ Active(t)
    /\ pc[t] = "idle"
    /\ \E i \in IndexInputs :
          /\ model_index' = Set(model_index, t, i)
          /\ IF InRange(i)
             THEN /\ model_info' = Set(model_info, t, i)
                  /\ pc' = Set(pc, t, "setup")
                  /\ ret' = ret
             ELSE /\ model_info' = model_info
                  /\ pc' = Set(pc, t, "sw_return")
                  /\ ret' = Set(ret, t, Returned(FALSE))
    /\ op' = Set(op, t, "switch_model")
    /\ UNCHANGED <<shared, langs, lazy, bpe, used_bpe, used_handle, info, changed, foreign_publish, probe>>

\* switch_model returns to its caller (views.py line 150); a caller told of a
\* failure is done (views.py lines 159-163)
switch_model_return(t) ==
    /\ pc[t] = "sw_return"
    /\ IF SwitchSucceeded(t)
       THEN /\ pc' = Set(pc, t, "caller")
            /\ foreign_publish' = NoteReturn(t)
            /\ changed' = Set(changed, t, FALSE)
            /\ UNCHANGED <<op, model_index, model_info, langs, lazy, bpe, used_bpe, used_handle, ret, info>>
       ELSE /\ pc' = Set(pc, t, "idle")
            /\ op' = Set(op, t, "none")
            /\ ResetLocals(t)
    /\ UNCHANGED <<shared, probe>>

\* views.py lines 152-153: if success: info = service.get_model_info()
caller_get_model_info(t) ==
    /\ pc[t] = "caller"
    /\ info' = Set(info, t, get_model_info(service, current_model))
    /\ pc' = Set(pc, t, "caller_done")
    /\ UNCHANGED <<shared, op, model_index, model_info, langs, lazy, bpe, used_bpe, used_handle, ret, changed,
                   foreign_publish, probe>>

\* the caller is done with the answer
caller_done(t) ==
    /\ pc[t] = "caller_done"
    /\ pc' = Set(pc, t, "idle")
    /\ op' = Set(op, t, "none")
    /\ ResetLocals(t)
    /\ UNCHANGED <<shared, probe>>

\* =================================================== TranslationService
IsNLLB == service = "nllb"

\* translate is entered
nllb_translate_call(t) ==
    /\ IsNLLB
    /\ Active(t)
    /\ pc[t] = "idle"
    /\ pc' = Set(pc, t, "tr_ready")
    /\ op' = Set(op, t, "translate")
    /\ UNCHANGED <<shared, model_index, model_info, langs, lazy, bpe, used_bpe, used_handle, ret, info,
                   changed, foreign_publish, probe>>

\* lines 165-179: without a model RuntimeError is raised; otherwise the source
\* and the target language are resolved
nllb_translate_ready(t) ==
    /\ IsNLLB
    /\ pc[t] = "tr_ready"
    /\ \E req \in Requests(scope, service), text \in RequestTexts(scope) :
          IF translator = None \/ tokenizer = None
          THEN /\ ret' = Set(ret, t, Raised("Translation model not initialized"))
               /\ pc' = Set(pc, t, "tr_return")
               /\ UNCHANGED langs
          ELSE LET src == ResolveSource(service, req[1], req[3], text)
               IN /\ source_lang' = Set(source_lang, t, src)
                  /\ target_lang' = Set(target_lang, t, ResolveTarget(service, src, req[2]))
                  /\ auto_detect' = Set(auto_detect, t, req[3])
                  /\ pc' = Set(pc, t, "tr_src_lang")
                  /\ ret' = ret
    /\ UNCHANGED <<shared, op, model_index, model_info, lazy, bpe, used_bpe, used_handle, info, changed,
                   foreign_publish, probe>>

\* line 183: self.tokenizer.src_lang = source_lang
nllb_translate_src_lang(t) ==
    /\ IsNLLB
    /\ pc[t] = "tr_src_lang"
    /\ tokenizer_src_lang' = source_lang[t]
    /\ pc' = Set(pc, t, "tr_encode")
    /\ UNCHANGED <<scope, service, device, translator, handle_compute_type, tokenizer,
                   dependencies_installed, lazy_loads, current_model, lock, op,
                   model_index, model_info, langs, lazy, bpe, used_bpe, used_handle, ret,
                   info, changed, foreign_publish, probe>>

\* lines 184-186: self.tokenizer encodes the text, or raises
nllb_translate_encode(t) ==
    /\ IsNLLB
    /\ pc[t] = "tr_encode"
    /\ \/ /\ pc' = Set(pc, t, "tr_acquire")
          /\ ret' = ret
       \/ /\ pc' = Set(pc, t, "tr_return")
          /\ ret' = Set(ret, t, Returned(Failure(source_lang[t], target_lang[t],
                                                 CalleeError)))
    /\ UNCHANGED <<shared, op, model_index, model_info, langs, lazy, bpe, used_bpe, used_handle, info, changed,
                   foreign_publish, probe>>

\* line 191: with self._lock
nllb_translate_acquire(t) ==
    /\ IsNLLB
    /\ pc[t] = "tr_acquire"
    /\ lock = Free
    /\ lock' = t
    /\ pc' = Set(pc, t, "tr_infer")
    /\ UNCHANGED <<scope, service, device, tokenizer_src_lang, dependencies_installed,
                   lazy_loads, translator, handle_compute_type, tokenizer,
                   current_model, op,
                   model_index, model_info, langs, lazy, bpe, used_bpe, used_handle, ret, info, changed,
                   foreign_publish, probe>>

\* lines 192-198: self.translator.translate_batch(...) returns or raises; the
\* with block releases the lock either way
nllb_translate_infer(t) ==
    /\ IsNLLB
    /\ pc[t] = "tr_infer"
    /\ lock' = Free
    /\ \/ /\ pc' = Set(pc, t, "tr_result")
          /\ ret' = ret
       \/ /\ pc' = Set(pc, t, "tr_return")
          /\ ret' = Set(ret, t, Returned(Failure(source_lang[t], target_lang[t],
                                                 CalleeError)))
    /\ UNCHANGED <<scope, service, device, tokenizer_src_lang, dependencies_installed,
                   lazy_loads, translator, handle_compute_type, tokenizer,
                   current_model, op,
                   model_index, model_info, langs, lazy, bpe, used_bpe, used_handle, info, changed,
                   foreign_publish, probe>>

\* lines 201-229: self.tokenizer decodes the hypothesis and the result is
\* assembled, or a callee raises
nllb_translate_result(t) ==
    /\ IsNLLB
    /\ pc[t] = "tr_result"
    /\ \/ \E text \in Translations(scope) :
             ret' = Set(ret, t, Returned(Success(text, source_lang[t], target_lang[t],
                                  ResultModelName(service, current_model), device)))
       \/ ret' = Set(ret, t, Returned(Failure(source_lang[t], target_lang[t],
                                              CalleeError)))
    /\ pc' = Set(pc, t, "tr_return")
    /\ UNCHANGED <<shared, op, model_index, model_info, langs, lazy, bpe, used_bpe, used_handle, info, changed,
                   foreign_publish, probe>>

\* lines 113-114 and 124: the range check of switch_model
nllb_switch_model_call(t) ==
    /\ IsNLLB
    /\ Active(t)
    /\ pc[t] = "idle"
    /\ \E i \in IndexInputs :
          /\ model_index' = Set(model_index, t, i)
          /\ IF InRange(i)
             THEN /\ model_info' = Set(model_info, t, i)
                  /\ pc' = Set(pc, t, "setup")
                  /\ ret' = ret
             ELSE /\ model_info' = model_info
                  /\ pc' = Set(pc, t, "sw_return")
                  /\ ret' = Set(ret, t, Returned(FALSE))
    /\ op' = Set(op, t, "switch_model")
    /\ UNCHANGED <<shared, langs, lazy, bpe, used_bpe, used_handle, info, changed, foreign_publish, probe>>

\* lines 116-118: the model directory is there, or _download_model fetches it,
\* or _download_model returns False
DownloadOutcomes == {"present", "downloaded", "download_failed"}

nllb_download_model(t) ==
    /\ IsNLLB
    /\ pc[t] = "setup"
    /\ \E outcome \in DownloadOutcomes :
          IF outcome # "download_failed"
          THEN /\ pc' = Set(pc, t, "load_acquire")
               /\ UNCHANGED <<ret, lazy>>
          ELSE LoadFailed(t)
    /\ UNCHANGED <<shared, op, model_index, model_info, langs, bpe, used_bpe, used_handle, info, changed,
                   foreign_publish, probe>>

\* _load_model line 71: with self._lock
nllb_load_model_acquire(t) ==
    /\ IsNLLB
    /\ pc[t] = "load_acquire"
    /\ lock = Free
    /\ lock' = t
    /\ pc' = Set(pc, t, "load_construct")
    /\ UNCHANGED <<scope, service, device, tokenizer_src_lang, dependencies_installed,
                   lazy_loads, translator, handle_compute_type, tokenizer,
                   current_model, op,
                   model_index, model_info, langs, lazy, bpe, used_bpe, used_handle, ret, info, changed,
                   foreign_publish, probe>>

\* lines 74-96: self.translator = the new handle, or the construction raises
\* and the with block releases the lock
nllb_load_model_construct(t) ==
    /\ IsNLLB
    /\ pc[t] = "load_construct"
    /\ \E engine \in Engines(Ladder(service, device)) :
          LET built == Negotiate(Ladder(service, device), engine, 1)
          IN IF built.result = "ok"
             THEN /\ translator' = model_info[t]
                  /\ handle_compute_type' = built.compute_type
                  /\ changed' = NoteChange(t, translator # model_info[t])
                  /\ pc' = Set(pc, t, "load_tokenizer")
                  /\ UNCHANGED <<lock, ret, lazy>>
             ELSE /\ lock' = Free
                  /\ LoadFailed(t)
                  /\ UNCHANGED <<translator, handle_compute_type, changed>>
    /\ UNCHANGED <<scope, service, device, tokenizer_src_lang, dependencies_installed,
                   lazy_loads, tokenizer, current_model, op, model_index,
                   model_info, langs, bpe, used_bpe, used_handle, info, foreign_publish, probe>>

\* lines 99-102: self.tokenizer = AutoTokenizer.from_pretrained(...), or it
\* raises and the with block releases the lock
nllb_load_model_tokenizer(t) ==
    /\ IsNLLB
    /\ pc[t] = "load_tokenizer"
    /\ \/ /\ tokenizer' = model_info[t]
          /\ tokenizer_src_lang' = NoLang
          /\ changed' = NoteChange(t, tokenizer # model_info[t])
          /\ pc' = Set(pc, t, "load_publish")
          /\ UNCHANGED <<lock, ret, lazy>>
       \/ /\ lock' = Free
          /\ LoadFailed(t)
          /\ UNCHANGED <<tokenizer, tokenizer_src_lang, changed>>
    /\ UNCHANGED <<scope, service, device, dependencies_installed,
                   lazy_loads, translator, handle_compute_type,
                   current_model, op, model_index,
                   model_info, langs, bpe, used_bpe, used_handle, info, foreign_publish, probe>>

\* lines 104-105: self.current_model = model_info, and the lock is released
nllb_load_model_publish(t) ==
    /\ IsNLLB
    /\ pc[t] = "load_publish"
    /\ current_model' = model_info[t]
    /\ changed' = NoteChange(t, current_model # model_info[t])
    /\ foreign_publish' = NotePublish(t)
    /\ lock' = Free
    /\ LoadDone(t)
    /\ UNCHANGED <<scope, service, device, tokenizer_src_lang, dependencies_installed,
                   lazy_loads, translator, handle_compute_type, tokenizer, op, model_index,
                   model_info, langs, lazy, bpe, used_bpe, used_handle, info, probe>>

NextNLLB(t) ==
    \/ nllb_translate_call(t)
    \/ nllb_translate_ready(t)
    \/ nllb_translate_src_lang(t)
    \/ nllb_translate_encode(t)
    \/ nllb_translate_acquire(t)
    \/ nllb_translate_infer(t)
    \/ nllb_translate_result(t)
    \/ nllb_switch_model_call(t)
    \/ nllb_download_model(t)
    \/ nllb_load_model_acquire(t)
    \/ nllb_load_model_construct(t)
    \/ nllb_load_model_tokenizer(t)
    \/ nllb_load_model_publish(t)

NextOpenNMT(t) ==
    \/ translate_call(t)
    \/ translate_lazy_check(t)
    \/ setup_model(t)
    \/ load_model_acquire(t)
    \/ load_model_construct(t)
    \/ load_model_publish(t)
    \/ translate_ready(t)
    \/ translate_bpe(t)
    \/ translate_acquire(t)
    \/ translate_infer(t)
    \/ translate_result(t)
    \/ switch_model_call(t)

NextCommon(t) ==
    \/ translate_return(t)
    \/ switch_model_return(t)
    \/ caller_get_model_info(t)
    \/ caller_done(t)

Next == \E t \in Threads : NextOpenNMT(t) \/ NextNLLB(t) \/ NextCommon(t)

Spec == Init /\ [][Next]_vars

\* The OpenNMT service under fair scheduling.
\* Running(t): the steps of a call that is under way, everything but the
\* entry of a new call.  A thread that can take such a step again and again
\* takes it: the engine, the tools and the downloads return, and a thread
\* blocked on self._lock gets it when it is released often enough.
Running(t) ==
    \/ translate_lazy_check(t) \/ setup_model(t)
    \/ load_model_acquire(t) \/ load_model_construct(t) \/ load_model_publish(t)
    \/ translate_ready(t) \/ translate_bpe(t)
    \/ translate_acquire(t) \/ translate_infer(t) \/ translate_result(t)
    \/ NextCommon(t)

InitLive == Init /\ IsOpenNMT

NextLive == \E t \in Threads : NextOpenNMT(t) \/ NextCommon(t)

SpecLive == InitLive /\ [][NextLive]_vars /\ \A t \in Threads : SF_vars(Running(t))

\* ========================================== language resolution alone
\* every request of the bounded input sets, for either service
ProbeInputs ==
    UNION { [state : {"request"}, svc : {svc}, source_lang : SourceInputs(svc),
             target_lang : TargetInputs(svc), auto_detect : BOOLEAN, text : Texts]
            : svc \in {"opennmt", "nllb"} }

InitResolve ==
    /\ scope = "requests"
    /\ probe \in ProbeInputs
    /\ service = probe.svc
    /\ device = "cpu"
    /\ translator = None /\ tokenizer = None /\ current_model = None
    /\ handle_compute_type = NoHandle
    /\ InitThreads

\* lines 270-280 / 169-179 applied to the request
resolve_languages ==
    /\ probe.state = "request"
    /\ LET src == ResolveSource(probe.svc, probe.source_lang, probe.auto_detect, probe.text)
       IN probe' = [state |-> "resolved", svc |-> probe.svc,
                    source_lang |-> probe.source_lang, target_lang |-> probe.target_lang,
                    auto_detect |-> probe.auto_detect, text |-> probe.text,
                    source |-> src,
                    target |-> ResolveTarget(probe.svc, src, probe.target_lang)]
    /\ UNCHANGED <<shared, pc, op, model_index, model_info, langs, lazy, bpe, used_bpe, used_handle, ret, info,
                   changed, foreign_publish>>

NextResolve == resolve_languages

SpecResolve == InitResolve /\ [][NextResolve]_vars

\* =============================================== the precision ladder alone
\* every load: the service, the device, the entry and the engine's answers
LadderInputs ==
    UNION { [state : {"load"}, svc : {svc}, dev : {dev}, model_info : ModelIndexes,
             engine : Engines(Ladder(svc, dev))]
            : <<svc, dev>> \in {"opennmt", "nllb"} \X {"cuda", "cpu"} }

\* the services idle with nothing published, and the probe as given
InitProbe(inputs) ==
    /\ scope = "requests"
    /\ probe \in inputs
    /\ device = "cpu"
    /\ translator = None /\ tokenizer = None /\ current_model = None
    /\ handle_compute_type = NoHandle
    /\ InitThreads

ProbeOnly ==
    UNCHANGED <<shared, pc, op, model_index, model_info, langs, lazy, bpe, used_bpe, used_handle, ret, info,
                changed, foreign_publish>>

InitLadder == InitProbe(LadderInputs) /\ service = probe.svc

\* the construction of the handle in _load_model
negotiate_compute_type ==
    /\ probe.state = "load"
    /\ probe' = [state |-> "negotiated", svc |-> probe.svc, dev |-> probe.dev,
                 model_info |-> probe.model_info, engine |-> probe.engine,
                 built |-> Negotiate(Ladder(probe.svc, probe.dev), probe.engine, 1)]
    /\ ProbeOnly

NextLadder == negotiate_compute_type

SpecLadder == InitLadder /\ [][NextLadder]_vars

\* ================================================== materialization alone
\* what urllib.request.urlretrieve does: the file is there, nothing is there,
\* or the transfer broke off and a partial file is there
FetchOutcomes == {"ok", "failed", "partial"}

\* what ct2-opennmt-py-converter does: the directory is there, a non-zero
\* exit without or with a directory left behind, or it could not be started
ConvertOutcomes == {"ok", "failed", "failed_partial", "raised"}

\* _download_file (lines 60-72) for a path that exists or not
download_file(exists, outcome) ==
    IF exists THEN [ok |-> TRUE, exists |-> TRUE, fetched |-> FALSE]
    ELSE IF outcome = "ok" THEN [ok |-> TRUE, exists |-> TRUE, fetched |-> TRUE]
    ELSE [ok |-> FALSE, exists |-> (outcome = "partial"), fetched |-> TRUE]

\* a conversion that does not look for the directory first
convert_to_ct2_always(exists, outcome) ==
    IF outcome = "ok" THEN [result |-> "true", exists |-> TRUE, converted |-> TRUE]
    ELSE IF outcome = "raised"
    THEN [result |-> "raised", exists |-> exists, converted |-> TRUE]
    ELSE [result |-> "false", exists |-> (exists \/ outcome = "failed_partial"),
          converted |-> TRUE]

\* _convert_to_ct2 (lines 74-97) for a directory that exists or not
convert_to_ct2(exists, outcome) ==
    IF exists THEN [result |-> "true", exists |-> TRUE, converted |-> FALSE]
    ELSE IF outcome = "ok" THEN [result |-> "true", exists |-> TRUE, converted |-> TRUE]
    ELSE IF outcome = "raised"
    THEN [result |-> "raised", exists |-> FALSE, converted |-> TRUE]
    ELSE [result |-> "false", exists |-> (outcome = "failed_partial"),
          converted |-> TRUE]

Fetched(name, download) == IF download.fetched THEN {name} ELSE {}

\* _setup_model (lines 173-183) on a disk, with what the network and the
\* converter do if they are asked: what was on the disk before and after,
\* what was fetched, whether the converter ran, and what it returned
setup_model_on(disk, env) ==
    LET weights == download_file(disk.weights, env.weights)
        bpe_file == download_file(disk.bpe, env.bpe)
        ct2 == convert_to_ct2(disk.ct2, env.convert)
    IN IF ~weights.ok
       THEN [before |-> disk, after |-> [disk EXCEPT !.weights = weights.exists],
             fetched |-> Fetched("weights", weights), converted |-> FALSE,
             result |-> "false"]
       ELSE IF ~bpe_file.ok
       THEN [before |-> disk,
             after |-> [disk EXCEPT !.weights = weights.exists, !.bpe = bpe_file.exists],
             fetched |-> Fetched("weights", weights) \cup Fetched("bpe", bpe_file),
             converted |-> FALSE, result |-> "false"]
       ELSE [before |-> disk,
             after |-> [weights |-> weights.exists, bpe |-> bpe_file.exists,
                        ct2 |-> ct2.exists],
             fetched |-> Fetched("weights", weights) \cup Fetched("bpe", bpe_file),
             converted |-> ct2.converted, result |-> ct2.result]

MaxRuns == 2

Disks == [weights : BOOLEAN, bpe : BOOLEAN, ct2 : BOOLEAN]
Environments == [weights : FetchOutcomes, bpe : FetchOutcomes, convert : ConvertOutcomes]

InitSetup ==
    /\ InitProbe([state : {"disk"}, disk : Disks, runs : {<<>>}])
    /\ service = "opennmt"

\* _setup_model is run once more on what the runs before it left
run_setup_model ==
    /\ probe.state = "disk"
    /\ Len(probe.runs) < MaxRuns
    /\ \E env \in Environments :
          LET run == setup_model_on(probe.disk, env)
          IN probe' = [state |-> "disk", disk |-> run.after,
                       runs |-> Append(probe.runs, run)]
    /\ ProbeOnly

NextSetup == run_setup_model

SpecSetup == InitSetup /\ [][NextSetup]_vars

\* ======================================================= detection alone
\* texts one character longer than those the requests carry
DetectTexts == UNION {[1..n -> Alphabet] : n \in 0..(MaxTextLen + 1)}

InitDetect ==
    /\ InitProbe([state : {"text"}, svc : {"opennmt", "nllb"}, text : DetectTexts])
    /\ service = probe.svc

\* detect_language(text) is called on the idle service
detect ==
    /\ probe.state = "text"
    /\ probe' = [state |-> "detected", svc |-> probe.svc, text |-> probe.text,
                 lang |-> detect_language(probe.svc, probe.text)]
    /\ ProbeOnly

NextDetect == detect

SpecDetect == InitDetect /\ [][NextDetect]_vars

\* ================================================== detokenization alone
\* Strings are sequences of one-character strings.
\* str.replace(pat, rep) and re.sub of a literal: leftmost matches, not
\* overlapping
RECURSIVE ReplaceAll(_, _, _)
ReplaceAll(text, pat, new) ==
    IF Len(text) < Len(pat) THEN text
    ELSE IF SubSeq(text, 1, Len(pat)) = pat
    THEN new \o ReplaceAll(SubSeq(text, Len(pat) + 1, Len(text)), pat, new)
    ELSE <<text[1]>> \o ReplaceAll(Tail(text), pat, new)

\* \s
IsSpace(c) == c \in {" ", "\t", "\n", "\r"}
\* [,.!?;:]
IsPunctuation(c) == c \in {",", ".", "!", "?", ";", ":"}
\* [a-zA-ZäöüßÄÖÜ]
IsLetter(c) ==
    c \in {"a", "b", "c", "d", "e", "f", "g", "h", "i", "j", "k", "l", "m",
           "n", "o", "p", "q", "r", "s", "t", "u", "v", "w", "x", "y", "z",
           "A", "B", "C", "D", "E", "F", "G", "H", "I", "J", "K", "L", "M",
           "N", "O", "P", "Q", "R", "S", "T", "U", "V", "W", "X", "Y", "Z",
           "ä", "ö", "ü", "ß", "Ä", "Ö", "Ü"}

\* the text after its leading run of white space
RECURSIVE DropSpaces(_)
DropSpaces(text) ==
    IF text # <<>> /\ IsSpace(text[1]) THEN DropSpaces(Tail(text)) ELSE text

\* the characters ｟ (U+FF5F) and ｠ (U+FF60), each one element of a text
MarkupOpen == "U+FF5F"
MarkupClose == "U+FF60"

\* line 149: re.sub(r'｟[^｠]*｠', '', text)
RECURSIVE RemoveMarkup(_)
RemoveMarkup(text) ==
    IF text = <<>> THEN <<>>
    ELSE IF text[1] = MarkupOpen /\ \E j \in 2..Len(text) : text[j] = MarkupClose
    THEN LET close == CHOOSE j \in 2..Len(text) :
                         /\ text[j] = MarkupClose
                         /\ \A k \in 2..(j - 1) : text[k] # MarkupClose
         IN RemoveMarkup(SubSeq(text, close + 1, Len(text)))
    ELSE <<text[1]>> \o RemoveMarkup(Tail(text))

\* line 155: re.sub(r'\s+', ' ', text)
RECURSIVE CollapseSpaces(_)
CollapseSpaces(text) ==
    IF text = <<>> THEN <<>>
    ELSE IF IsSpace(text[1]) THEN <<" ">> \o CollapseSpaces(DropSpaces(text))
    ELSE <<text[1]>> \o CollapseSpaces(Tail(text))

\* lines 156 and 159: re.sub(r'\s+([...])', r'\1', text) for the characters
\* of `after`
RECURSIVE DropSpacesBefore(_, _)
DropSpacesBefore(text, after) ==
    IF text = <<>> THEN <<>>
    ELSE LET rest == DropSpaces(text)
         IN IF IsSpace(text[1]) /\ rest # <<>> /\ rest[1] \in after
            THEN <<rest[1]>> \o DropSpacesBefore(Tail(rest), after)
            ELSE <<text[1]>> \o DropSpacesBefore(Tail(text), after)

\* lines 158 and 160: re.sub(r"'\s+", "'", text) for the character `before`
RECURSIVE DropSpacesAfter(_, _)
DropSpacesAfter(text, before) ==
    IF text = <<>> THEN <<>>
    ELSE IF text[1] = before /\ Len(text) > 1 /\ IsSpace(text[2])
    THEN <<before>> \o DropSpacesAfter(DropSpaces(Tail(text)), before)
    ELSE <<text[1]>> \o DropSpacesAfter(Tail(text), before)

\* line 157: re.sub(r'([,.!?;:])([a-zA-ZäöüßÄÖÜ])', r'\1 \2', text)
RECURSIVE SpaceAfterPunctuation(_)
SpaceAfterPunctuation(text) ==
    IF Len(text) < 2 THEN text
    ELSE IF IsPunctuation(text[1]) /\ IsLetter(text[2])
    THEN <<text[1], " ", text[2]>> \o SpaceAfterPunctuation(SubSeq(text, 3, Len(text)))
    ELSE <<text[1]>> \o SpaceAfterPunctuation(Tail(text))

\* str.strip()
RECURSIVE DropTrailingSpaces(_)
DropTrailingSpaces(text) ==
    IF text # <<>> /\ IsSpace(text[Len(text)])
    THEN DropTrailingSpaces(SubSeq(text, 1, Len(text) - 1)) ELSE text
Strip(text) == DropTrailingSpaces(DropSpaces(text))

\* _detokenize_bpe, lines 141-162
detokenize_bpe(text) ==
    LET t1 == ReplaceAll(ReplaceAll(text, <<"@", "@", " ">>, <<>>), <<"@", "@">>, <<>>)
        t2 == ReplaceAll(ReplaceAll(t1, <<"￭", " ">>, <<>>), <<"￭">>, <<>>)
        t3 == ReplaceAll(t2, <<"▁">>, <<" ">>)
        t4 == RemoveMarkup(t3)
        t5 == ReplaceAll(t4, <<"<", "u", "n", "k", ">">>, <<>>)
        t6 == ReplaceAll(t5, <<"<", "s", ">">>, <<>>)
        t7 == ReplaceAll(t6, <<"<", "/", "s", ">">>, <<>>)
        t8 == CollapseSpaces(t7)
        t9 == DropSpacesBefore(t8, {",", ".", "!", "?", ";", ":"})
        t10 == SpaceAfterPunctuation(t9)
        t11 == DropSpacesAfter(t10, "'")
        t12 == DropSpacesBefore(t11, {"\""})
        t13 == DropSpacesAfter(t12, "\"")
    IN Strip(t13)

MaxRawLen == 3

\* raw translations: a marker of each kind, a space, punctuation and a letter
RawAlphabet == {"@", "￭", " ", ",", "a"}
RawTexts == UNION {[1..n -> RawAlphabet] : n \in 0..MaxRawLen}

InitDetokenize ==
    /\ InitProbe([state : {"raw"}, text : RawTexts])
    /\ service = "opennmt"

\* _detokenize_bpe applied to the text, and again to what it returned
detokenize ==
    /\ probe.state = "raw"
    /\ probe' = [state |-> "detokenized", text |-> probe.text,
                 once |-> detokenize_bpe(probe.text),
                 twice |-> detokenize_bpe(detokenize_bpe(probe.text))]
    /\ ProbeOnly

NextDetokenize == detokenize

SpecDetokenize == InitDetokenize /\ [][NextDetokenize]_vars

\* ================================================== the translate endpoint
\* views.translate_text in front of the OpenNMT service's translate, which
\* is called from nowhere else.
\* request.data: 'text' as sent ('' when absent), 'source_lang' and
\* 'target_lang' (NoLang when absent), 'auto_detect' (True when absent)
ViewTexts == {<<>>, <<" ">>, <<"x">>, <<" ", "x">>}
ViewRequests ==
    [text : ViewTexts, source_lang : SourceInputs("opennmt"),
     target_lang : TargetInputs("opennmt"), auto_detect : BOOLEAN]

\* Response({'error': ...}, status=...) without reaching the service
Rejected(request, error) ==
    [state |-> "rejected", request |-> request, status |-> 400, error |-> error]

\* a view that forgets the check of lines 74-78
translate_text_source_only(request) ==
    LET text == Strip(request.text)
    IN IF text = <<>>
       THEN Rejected(request, "Text field is required and cannot be empty")
       ELSE IF /\ ~Falsy(request.source_lang)
               /\ request.source_lang \notin DOMAIN SUPPORTED_LANGUAGES
       THEN Rejected(request, "Unsupported source language")
       ELSE [state |-> "forwarded", request |-> request, text |-> text,
             source_lang |-> request.source_lang,
             target_lang |-> request.target_lang,
             auto_detect |-> request.auto_detect]

\* translate_text, lines 52-87: up to the call of service.translate
translate_text(request) ==
    LET text == Strip(request.text)                          \* line 54
    IN IF text = <<>>                                        \* lines 56-60
       THEN Rejected(request, "Text field is required and cannot be empty")
       ELSE IF /\ ~Falsy(request.source_lang)                \* lines 68-72
               /\ request.source_lang \notin DOMAIN SUPPORTED_LANGUAGES
       THEN Rejected(request, "Unsupported source language")
       ELSE IF /\ ~Falsy(request.target_lang)                \* lines 74-78
               /\ request.target_lang \notin DOMAIN SUPPORTED_LANGUAGES
       THEN Rejected(request, "Unsupported target language")
       ELSE [state |-> "forwarded", request |-> request, text |-> text,
             source_lang |-> request.source_lang,
             target_lang |-> request.target_lang,
             auto_detect |-> request.auto_detect]

InitView ==
    /\ InitProbe([state : {"request"}, request : ViewRequests])
    /\ service = "opennmt"

\* lines 52-80: validation
view_validate ==
    /\ probe.state = "request"
    /\ probe' = translate_text(probe.request)
    /\ ProbeOnly

\* lines 81-95: service.translate runs (encoding, then the engine) and its
\* result becomes the response
view_translate ==
    /\ probe.state = "forwarded"
    /\ \E success \in BOOLEAN :
         probe' = [state |-> "responded", request |-> probe.request,
                   status |-> IF success THEN 200 ELSE 500,
                   error |-> IF success THEN "" ELSE "Translation failed"]
    /\ ProbeOnly

NextView == view_validate \/ view_translate

SpecView == InitView /\ [][NextView]_vars

\* ================================================ subword encoding alone
\* _apply_bpe_to_text (lines 99-139) on the lines of one call, for each way
\* subword-nmt and the reading of its output can end: the temporary files
\* it created (lines 104-110), the ones it unlinked (lines 134-137) and
\* what it returned: one token list per line, [] after a non-zero exit
\* (lines 123-125) or unreadable output (lines 131-133), or the exception
\* of a tool that could not be started
apply_bpe_to_text(text_lines, outcome) ==
    LET created == {"temp_input", "temp_output"}
    IN IF outcome = "raised"
       THEN [result |-> "raised", value |-> <<>>, created |-> created, deleted |-> {}]
       ELSE IF outcome = "tool_failed"
       THEN [result |-> "returned", value |-> <<>>, created |-> created, deleted |-> {}]
       ELSE IF outcome = "unreadable"
       THEN [result |-> "returned", value |-> <<>>, created |-> created,
             deleted |-> created]
       ELSE [result |-> "returned",
             value |-> [k \in 1..Len(text_lines) |-> <<text_lines[k]>>],
             created |-> created, deleted |-> created]

\* translate passes [text] (line 284)
InitBpe ==
    /\ InitProbe([state : {"encode"}, text_lines : [1..1 -> Texts],
                  outcome : BpeOutcomes])
    /\ service = "opennmt"

apply_bpe ==
    /\ probe.state = "encode"
    /\ probe' = [state |-> "encoded", text_lines |-> probe.text_lines,
                 outcome |-> probe.outcome,
                 bpe |-> apply_bpe_to_text(probe.text_lines, probe.outcome)]
    /\ ProbeOnly

NextBpe == apply_bpe

SpecBpe == InitBpe /\ [][NextBpe]_vars

\* ============================================================ properties
\* C1: the engine's translate_batch is never running in two calls at once:
\* at most one thread is inside the locked inference section, and it holds
\* the lock.
C1_InferenceExclusive ==
    \A t, u \in Threads :
        (pc[t] = "tr_infer" /\ pc[u] = "tr_infer") => (t = u /\ lock = t)

\* one call is inside the engine while another has encoded its text and waits
C1_OneInferringOneWaiting ==
    \E t, u \in Threads : t # u /\ pc[t] = "tr_infer" /\ pc[u] = "tr_acquire" /\ lock = t

\* C2: a switch_model call that returns False has assigned none of the
\* published fields (translator, tokenizer, current_model) a different value.
C2_FailedSwitchLeavesPublished ==
    \A t \in Threads :
        (pc[t] = "sw_return" /\ ret[t] = Returned(FALSE)) => ~changed[t]

\* C3: translate never raises to its caller: whatever it ends with is a
\* returned result.
C3_TranslateNeverRaises ==
    \A t \in Threads :
        (op[t] = "translate" /\ pc[t] = "tr_return") => ret[t].kind = "return"

\* the steps of OpenNMT's translate that read self.translator or
\* self.current_model outside the lock: lines 256, 260, 284 and 317
ReadPcs == {"tr_lazy_check", "tr_ready", "tr_encode", "tr_result"}

ReadStep(t) ==
    /\ IsOpenNMT
    /\ op[t] = "translate"
    /\ pc[t] \in ReadPcs
    /\ pc'[t] # pc[t]

\* _load_model has assigned self.translator (line 190) and not yet
\* self.current_model (line 196): the published pair is half replaced
Swapping(u) == pc[u] = "load_publish"

\* C4: no step of translate reads the published translator or descriptor
\* while another call is inside _load_model replacing them.
C4_ReadsExcludeSwap ==
    [][\A t \in Threads :
          ReadStep(t) => \A u \in Threads \ {t} : ~Swapping(u)]_vars

\* C5 as stated: the status read after a successful switch_model(i) names
\* entry i provided no other switch has returned since this one did.
C5_StatusAfterSwitch ==
    \A t \in Threads :
        (pc[t] = "caller_done" /\ foreign_publish[t] # 2)
            => info[t] = ModelName(service, model_index[t])

\* C5 amended: the status read after a successful switch_model(i) names
\* entry i provided no other call has published a descriptor since this
\* call published its own.
C5_StatusAfterUndisturbedSwitch ==
    \A t \in Threads :
        (pc[t] = "caller_done" /\ foreign_publish[t] = 0)
            => info[t] = ModelName(service, model_index[t])

\* a switch to an entry other than the default has been answered and its
\* status read with no publish by anyone else, while another call is under way
C5_SwitchedAndRead ==
    \E t, u \in Threads :
        /\ t # u
        /\ pc[t] = "caller_done" /\ foreign_publish[t] = 0
        /\ model_index[t] # DEFAULT_MODEL_INDEX
        /\ info[t] = ModelName(service, model_index[t])
        /\ pc[u] # "idle"

\* C6: a switch_model call with an index outside the registry goes straight
\* to returning False: it is never in a download, conversion or load step,
\* never holds the lock and has changed no published field.
C6_OutOfRangeSwitch ==
    \A t \in Threads :
        (op[t] = "switch_model" /\ model_index[t] \notin ModelIndexes)
            => /\ pc[t] = "sw_return"
               /\ ret[t] = Returned(FALSE)
               /\ model_info[t] = None
               /\ lock # t
               /\ ~changed[t]

\* an index equal to the registry's length was refused with a model published
C6_LengthRefused ==
    \E t \in Threads :
        /\ pc[t] = "sw_return" /\ model_index[t] = NumModels
        /\ ret[t] = Returned(FALSE)
        /\ current_model # None

IsNotInitialized(r) ==
    /\ r.kind = "return"
    /\ r.value.success = FALSE
    /\ r.value.error = "OpenNMT translation model not initialized"
    /\ r.value.translated_text = ""

\* C7 as stated: a translate that found no model and whose lazy
\* initialization failed is only ever about to re-check, or has the
\* not-initialized failure as its result.
C7_LazyFailureFails ==
    \A t \in Threads :
        lazy[t] => \/ pc[t] = "tr_ready"
                   \/ pc[t] = "tr_return" /\ IsNotInitialized(ret[t])

\* C7 amended: a translate that found no model and whose lazy initialization
\* failed, and that still finds no published model when it re-checks, returns
\* the not-initialized failure without an encode or inference step and
\* without touching the lock or the published fields.
C7_LazyFailureFailsUnlessPublished ==
    [][\A t \in Threads :
          (/\ op[t] = "translate" /\ pc[t] = "tr_ready" /\ lazy[t]
           /\ pc'[t] # pc[t]
           /\ (translator = None \/ current_model = None))
          => /\ pc'[t] = "tr_return"
             /\ IsNotInitialized(ret'[t])
             /\ UNCHANGED <<translator, tokenizer, current_model, lock>>]_vars

\* the not-initialized failure returned after a failed lazy initialization
C7_NotInitializedReturned ==
    \E t \in Threads :
        /\ pc[t] = "tr_return" /\ lazy[t] /\ IsNotInitialized(ret[t])
        /\ lock = Free

\* C8: a request without a source language and with auto-detection off never
\* reaches the encode, inference or result step.
C8_AmbiguousSourceRejected ==
    \A t \in Threads :
        (op[t] = "translate" /\ pc[t] \in {"tr_encode", "tr_acquire", "tr_infer", "tr_result"})
            => ~(Falsy(source_lang[t]) /\ ~auto_detect[t])

\* C9: an explicit target is used unchanged; without one the target is the
\* other language of the pair for an English or German source and the
\* service's fixed default for any other source.
C9_TargetResolution ==
    probe.state = "resolved" =>
        LET svc == probe.svc
        IN IF probe.target_lang \notin {NoLang, ""} THEN probe.target = probe.target_lang
           ELSE IF probe.source = English(svc) THEN probe.target = German(svc)
           ELSE IF probe.source = German(svc) THEN probe.target = English(svc)
           ELSE probe.target = (IF svc = "opennmt" THEN "de" ELSE "eng_Latn")

\* a German text detected without a source or a target resolves to English
C9_DetectedGermanToEnglish ==
    /\ probe.state = "resolved"
    /\ probe.source_lang = NoLang /\ probe.target_lang = NoLang /\ probe.auto_detect
    /\ probe.source = German(probe.svc)
    /\ probe.target = English(probe.svc)

\* C10: every result translate returns is a success (success true, a
\* translated text, no error field) or a failure (success false, an error
\* field, an empty translated text).
C10_ResultShapes ==
    \A t \in Threads :
        (op[t] = "translate" /\ pc[t] = "tr_return" /\ ret[t].kind = "return")
            => LET r == ret[t].value
               IN \/ /\ r.success = TRUE
                     /\ "error" \notin DOMAIN r
                     /\ "translated_text" \in DOMAIN r
                  \/ /\ r.success = FALSE
                     /\ "error" \in DOMAIN r
                     /\ r.translated_text = ""

\* a failure returned after the languages were resolved, by the except clause
C10_FailureAfterResolution ==
    \E t \in Threads :
        /\ IsOpenNMT /\ pc[t] = "tr_return" /\ ret[t].kind = "return"
        /\ ret[t].value.success = FALSE
        /\ ret[t].value.error = CalleeError
        /\ ret[t].value.translated_text = ""

\* C11: a call whose segmentation tool exited non-zero or left output that
\* cannot be read has returned the failure result of the encode stage: it is
\* never at the lock or in the engine, and no success result exists for it.
C11_SegmentationFailureFails ==
    \A t \in Threads :
        bpe[t] \in {"tool_failed", "unreadable"}
            => /\ pc[t] = "tr_return"
               /\ ret[t].kind = "return"
               /\ ret[t].value.success = FALSE
               /\ ret[t].value.error = "BPE tokenization failed"
               /\ ret[t].value.translated_text = ""
               /\ lock # t

\* the tool's output could not be read and the failure was returned, with a
\* model published
C11_UnreadableOutputReturned ==
    \E t \in Threads :
        /\ bpe[t] = "unreadable" /\ pc[t] = "tr_return"
        /\ ret[t].value.success = FALSE
        /\ translator # None /\ current_model # None

\* two switch_model calls have both succeeded and neither has yet read
\* the status
BothSwitched(t, u) ==
    /\ t # u
    /\ pc[t] \in {"sw_return", "caller"} /\ SwitchSucceeded(t)
    /\ pc[u] \in {"sw_return", "caller"} /\ SwitchSucceeded(u)

\* C12 as stated: in every reachable state of the OpenNMT service the
\* published handle and the published descriptor belong to the same model.
C12_PublishedPairSameModel ==
    IsOpenNMT => translator = current_model

\* C12 amended: whenever no call is between the two assignments of
\* _load_model, the published handle and descriptor of the OpenNMT service
\* belong to the same model, and when two switch_model calls have both
\* succeeded that model is the one of the call that published last.
C12_PublishedPairSameModelOutsidePublish ==
    (IsOpenNMT /\ \A v \in Threads : pc[v] # "load_publish")
        => /\ translator = current_model
           /\ \A t, u \in Threads :
                 (BothSwitched(t, u) /\ foreign_publish[t] = 0)
                     => current_model = model_index[t]

\* two switches to different entries have both succeeded; the later
\* publisher's entry is the published one
C12_TwoSwitchesSucceeded ==
    \E t, u \in Threads :
        /\ IsOpenNMT /\ BothSwitched(t, u)
        /\ model_index[t] # model_index[u]
        /\ foreign_publish[t] = 0 /\ foreign_publish[u] # 0
        /\ translator = model_index[t] /\ current_model = model_index[t]

\* the steps at which a thread is inside a `with self._lock` block
LockedPcs == {"load_construct", "load_tokenizer", "load_publish", "tr_infer"}

\* C13: a call that is downloading or converting (_setup_model) does not hold
\* the lock; the lock is free or held by a call inside a locked block.
C13_SetupWithoutLock ==
    \A u \in Threads :
        pc[u] = "setup"
            => /\ lock # u
               /\ lock # Free => pc[lock] \in LockedPcs

\* a switch is setting up another entry while a translate is inside the
\* engine with the published model
C13_TranslateDuringSetup ==
    \E t, u \in Threads :
        /\ IsOpenNMT
        /\ op[u] = "switch_model" /\ pc[u] = "setup"
        /\ current_model # None /\ model_info[u] # current_model
        /\ op[t] = "translate" /\ pc[t] = "tr_infer" /\ lock = t

\* C15: the compute_type get_model_info reports is the one the published
\* handle was constructed with.
C15_ReportedPrecisionIsHandlePrecision ==
    translator # None => get_compute_type(device) = handle_compute_type

\* C20: a call that is constructing its handle in _load_model does not hold
\* the lock.
C20_ConstructWithoutLock ==
    \A t \in Threads : pc[t] = "load_construct" => lock # t

\* C14: the load tries the device's own compute type first, goes to the next
\* entry of its list only after the engine refused the entry as unsupported,
\* stops at the first entry that is built or fails otherwise, fails when
\* every entry was refused, and so makes at most as many attempts as the list
\* has entries.
C14_BoundedLadder ==
    probe.state = "negotiated" =>
        LET ladder == Ladder(probe.svc, probe.dev)
            engine == probe.engine
            built  == probe.built
        IN /\ ladder[1] = get_compute_type(probe.dev)
           /\ built.attempts \in 1..Len(ladder)
           /\ \A j \in 1..(built.attempts - 1) : engine[j] = "unsupported"
           /\ built.result \in {"ok", "error", "exhausted"}
           /\ built.result = "ok"
                 => engine[built.attempts] = "ok"
                    /\ built.compute_type = ladder[built.attempts]
           /\ built.result = "error" => engine[built.attempts] = "error"
           /\ built.result = "exhausted"
                 => built.attempts = Len(ladder)
                    /\ \A j \in 1..Len(ladder) : engine[j] = "unsupported"

\* two entries were refused as unsupported and the third one was built
C14_FellBackTwice ==
    /\ probe.state = "negotiated"
    /\ probe.svc = "nllb" /\ probe.dev = "cuda"
    /\ probe.engine = <<"unsupported", "unsupported", "ok">>
    /\ probe.built.result = "ok" /\ probe.built.attempts = 3
    /\ probe.built.compute_type = "float32"

AllThere(disk) == disk.weights /\ disk.bpe /\ disk.ct2

\* a run of _setup_model that only looked: nothing fetched, nothing converted,
\* True returned, the disk as it was
NoOp(run) ==
    /\ run.fetched = {} /\ ~run.converted
    /\ run.result = "true"
    /\ run.after = run.before

\* C16 as stated: a run that finds the three artifacts only looks, and of
\* two runs in a row only the first fetches or converts.
C16_SetupIdempotent ==
    probe.state = "disk" =>
        \A k \in DOMAIN probe.runs :
            /\ AllThere(probe.runs[k].before) => NoOp(probe.runs[k])
            /\ k > 1 => (probe.runs[k].fetched = {} /\ ~probe.runs[k].converted)

\* C16 amended: a run that finds the three artifacts only looks, and a run
\* that follows a run that returned True only looks.
C16_SetupIdempotentAfterSuccess ==
    probe.state = "disk" =>
        \A k \in DOMAIN probe.runs :
            /\ AllThere(probe.runs[k].before) => NoOp(probe.runs[k])
            /\ (k > 1 /\ probe.runs[k - 1].result = "true") => NoOp(probe.runs[k])

\* an empty disk, a first run that fetched both files and converted, and a
\* second run that only looked
C16_SecondRunOnlyLooked ==
    /\ probe.state = "disk" /\ Len(probe.runs) = 2
    /\ probe.runs[1].before = [weights |-> FALSE, bpe |-> FALSE, ct2 |-> FALSE]
    /\ probe.runs[1].fetched = {"weights", "bpe"} /\ probe.runs[1].converted
    /\ probe.runs[1].result = "true"
    /\ NoOp(probe.runs[2])

\* some entry of the service's indicator list is a substring of the
\* lower-cased text
HasIndicator(svc, text) ==
    LET low == Lower(text)
        inds == german_indicators(svc)
    IN \E k \in DOMAIN inds :
          \E i \in 1..Len(low) :
              /\ i + Len(inds[k]) - 1 <= Len(low)
              /\ SubSeq(low, i, i + Len(inds[k]) - 1) = inds[k]

\* C17: detect_language returns the German id exactly when an indicator
\* occurs in the lower-cased text and the English id otherwise, so the empty
\* text gives the English id; the service's published state is as it was.
C17_DetectByIndicators ==
    probe.state = "detected" =>
        /\ probe.lang = IF HasIndicator(probe.svc, probe.text)
                        THEN German(probe.svc) ELSE English(probe.svc)
        /\ probe.text = <<>> => probe.lang = English(probe.svc)
        /\ translator = None /\ tokenizer = None /\ current_model = None
        /\ lock = Free

\* a text whose only indicator is an upper-case umlaut is detected as German
C17_UpperCaseUmlautDetected ==
    /\ probe.state = "detected" /\ probe.svc = "opennmt"
    /\ probe.text = <<"x", "Ü">>
    /\ probe.lang = "de"

\* C18: detokenizing what _detokenize_bpe returned gives the same string.
C18_DetokenizeIdempotent ==
    probe.state = "detokenized" => probe.twice = probe.once

\* an explicit source or target id that is not a key of the table
InvalidLanguage(request) ==
    \/ ~Falsy(request.source_lang) /\ request.source_lang \notin DOMAIN SUPPORTED_LANGUAGES
    \/ ~Falsy(request.target_lang) /\ request.target_lang \notin DOMAIN SUPPORTED_LANGUAGES

InvalidLanguageErrors == {"Unsupported source language", "Unsupported target language"}

StagePcs == {"tr_ready", "tr_src_lang", "tr_encode", "tr_result"}

StageStep(t) ==
    /\ op[t] = "translate"
    /\ pc[t] \in StagePcs
    /\ pc'[t] # pc[t]

\* C21: the detection, encode and decode stages of translate change no field
\* of the service or of its tokenizer, and a call's encode runs with that
\* call's own source language.
C21_StagesTouchNoSharedState ==
    [][\A t \in Threads :
          StageStep(t) =>
              /\ UNCHANGED <<device, translator, handle_compute_type, tokenizer,
                             tokenizer_src_lang, dependencies_installed,
                             current_model, lock>>
              /\ (IsNLLB /\ pc[t] = "tr_encode") => tokenizer_src_lang = source_lang[t]]_vars

\* C22: over any interleaving of translate calls the lazy initialization
\* materializes and loads the default model at most once.
C22_LazyInitializationOnce == lazy_loads <= 1

C24_PublishedTripleSameModel ==
    (IsNLLB /\ lock = Free) => (translator = tokenizer /\ tokenizer = current_model)

\* C25: every temporary file _apply_bpe_to_text created is deleted when it
\* returns, after tool success, tool non-zero exit and unreadable output.
C25_TemporaryFilesDeleted ==
    (probe.state = "encoded" /\ probe.outcome \in {"ok", "tool_failed", "unreadable"})
        => probe.bpe.deleted = probe.bpe.created

\* the steps at which a call waits for self._lock
AcquirePcs == {"tr_acquire", "load_acquire"}

C27_ReadinessPermanent ==
    [][(translator # None /\ current_model # None)
          => (translator' # None /\ current_model' # None)]_vars

\* with a model published, a switch_model to a model of the registry has
\* failed
C27_ReadyAfterFailedSwitch ==
    \E t \in Threads :
        /\ IsOpenNMT
        /\ translator # None /\ current_model # None
        /\ pc[t] = "sw_return"
        /\ model_index[t] \in ModelIndexes
        /\ ret[t] = Returned(FALSE)

====
